---- MODULE Spec2Model ----
(***************************************************************************)
(* Model of the Amazon best-sellers scraper: the retrying page fetch       *)
(* (scrape.py fetch_page), the recursive category crawl (scrape.py         *)
(* scrape_category over db.py save_category_to_db), and product ingestion  *)
(* (scrape.py fetch_products_by_category over utils.py process_products).  *)
(*                                                                         *)
(* Strings are sequences of tokens, so concatenation is \o and a prefix    *)
(* test looks at the first token.  A Python value that may be None is      *)
(* None (the empty tuple) or Some(v) (the one-element tuple).              *)
(***************************************************************************)
EXTENDS Integers, Sequences, FiniteSets, TLC

VARIABLES
    fstate,      \* fetch_page: "idle", "active" (in the while loop), "returned", "raised"
    request,     \* fetch_page: its arguments [url, selector], None when idle
    attempt,     \* fetch_page: the local `attempt`
    posts,       \* history: the number of requests.post calls of the current call
    response,    \* the value fetch_page returned (response.json()), None before
    cpc,         \* crawl: "idle", "running", "raising", "completed", "error"
    stack,       \* crawl: the active scrape_category calls, outermost first
    categories,  \* categories.db: the rows of table categories, in id order
    progress,    \* crawl: depth1/2/3_progress, None until a call initialises them
    fetched,     \* history: every fetch_page call of the crawl, [url, depth, rows]:
                 \* the url, the caller's depth, the category rows stored by then
    ipc,         \* fetch_products_by_category: where the call is, "idle" before any
    category_id, \* fetch_products_by_category: its argument
    products,    \* products.db: the rows of table products, in id order
    removed,     \* history: how many rows the current call deleted
    results,     \* process_products: its argument `results`
    pos,         \* process_products: the index of the next result of the for loop
    title,       \* process_products: the local `title`
    rating,      \* process_products: the local `rating`
    price,       \* process_products: the local `price`
    rpc,         \* extract_url_from_anchor: "idle", "called", "returned"
    html_string, \* extract_url_from_anchor: its argument
    resolved     \* extract_url_from_anchor: the value it returned

fetchVars == <<fstate, request, attempt, posts, response>>
crawlVars == <<cpc, stack, categories, progress, fetched>>
parseVars == <<results, pos, title, rating, price>>
ingestVars == <<ipc, category_id, products, removed, results, pos, title, rating, price>>
resolveVars == <<rpc, html_string, resolved>>
vars == <<fstate, request, attempt, posts, response,
          cpc, stack, categories, progress, fetched,
          ipc, category_id, products, removed, results, pos, title, rating, price,
          rpc, html_string, resolved>>

None == <<>>
Some(v) == <<v>>
Val(o) == o[1]

Min(S) == CHOOSE x \in S : \A y \in S : x <= y
Last(s) == s[Len(s)]
Front(s) == SubSeq(s, 1, Len(s) - 1)
SeqsUpTo(S, n) == UNION {[1..k -> S] : k \in 0..n}
\* the sequences over S of length at most n that repeat no element
DistinctSeqsUpTo(S, n) ==
    {s \in SeqsUpTo(S, n) : \A j, k \in 1..Len(s) : j # k => s[j] # s[k]}

(***************************************************************************)
(* Bounds of the model.                                                    *)
(***************************************************************************)
\* the longest result list a fetched category page carries
MaxLinks == 2
\* the most requests.post calls followed within one fetch_page call
MaxPosts == 4
\* the longest result list a fetched product page carries
MaxFragments == 3
\* the most attributes of an HTML fragment given to extract_url_from_anchor
MaxAttrs == 2

(***************************************************************************)
(* Program constants.                                                      *)
(***************************************************************************)
max_retries == 3
MaxDepth == 3

BASE_URL == <<"https://www.amazon.com/">>
RootPath == <<"gp/bestsellers/">>
RootUrl == BASE_URL \o RootPath
SECTION_SELECTOR == "section"
PRODUCT_SELECTOR == "product"

(***************************************************************************)
(* utils.py extract_url_from_anchor.  An HTML fragment is the sequence of  *)
(* its attributes, each [name, value, quote]; re.search takes the first     *)
(* text href="..." whose value is not empty, wherever it stands.           *)
(***************************************************************************)
Attr(n, v) == [name |-> n, value |-> v, quote |-> "double"]
\* an attribute written name='value'
SingleQuoted(n, v) == [name |-> n, value |-> v, quote |-> "single"]

\* tokens whose text begins with the characters "http"
HttpTokens == {"https://www.amazon.com/", "https://", "http://", "http"}

startswith_http(v) == v # <<>> /\ v[1] \in HttpTokens

\* the attribute names whose text ends with the characters "href"
ends_with_href(name) == name \in {"href", "data-href"}

\* line 50: the places where r'href="([^"]+)"' matches
HrefMatches(html) ==
    {k \in 1..Len(html) : /\ ends_with_href(html[k].name)
                          /\ html[k].quote = "double"
                          /\ html[k].value # <<>>}

\* a changed extract_url_from_anchor: the last match is taken, not the first
extract_url_from_anchor_last(html) ==
    IF HrefMatches(html) = {}
    THEN None
    ELSE LET href_value ==
                 html[CHOOSE k \in HrefMatches(html) : \A j \in HrefMatches(html) : j <= k].value
         IN  Some(IF ~startswith_http(href_value)
                  THEN BASE_URL \o href_value
                  ELSE href_value)

\* lines 46-55
extract_url_from_anchor(html) ==
    IF HrefMatches(html) = {}
    THEN None
    ELSE LET href_value == html[Min(HrefMatches(html))].value
         IN  Some(IF ~startswith_http(href_value)
                  THEN BASE_URL \o href_value
                  ELSE href_value)

(***************************************************************************)
(* The extractor service.  A 200 response's JSON is [data], `data` absent  *)
(* (None) or a list of entries [results], `results` absent or a list of    *)
(* fragments [text, html].                                                 *)
(***************************************************************************)
Fragment(t, h) == [text |-> t, html |-> h]

CategoryFragments ==
    { Fragment(<<"Books">>, <<Attr("href", <<"books/">>)>>),
      Fragment(<<"Toys">>, <<Attr("class", <<"nav">>),
                             Attr("href", BASE_URL \o <<"toys/">>)>>),
      Fragment(<<"Any Department">>, <<Attr("href", RootPath)>>),
      Fragment(<<"Departments">>, <<Attr("class", <<"hd">>)>>) }

\* the attributes of the anchors extract_url_from_anchor is tried on: href
\* with an empty value, a relative path, an absolute URL and a relative path
\* that begins with the letters http; a class; a data-href; a href in single quotes
HrefValues ==
    { <<>>, <<"dp/B00">>, <<"https://", "a.co/x">>, <<"http", "d/docs">> }
AnchorAttrs ==
    { Attr("href", v) : v \in HrefValues } \cup
    { Attr("class", <<"nav">>), Attr("data-href", <<"dp/B01">>),
      SingleQuoted("href", <<"dp/B02">>) }
HtmlInputs == SeqsUpTo(AnchorAttrs, MaxAttrs)

\* lines 46-55: the call returns
Resolve ==
    /\ rpc = "called"
    /\ resolved' = extract_url_from_anchor(html_string)
    /\ rpc' = "returned"
    /\ UNCHANGED <<html_string, fetchVars, crawlVars, ingestVars>>

\* the text nodes a product page yields: two titles (one padded with
\* whitespace), a rating, a price, a text with both `stars` and `$`, a blank
ProductTexts ==
    { <<" ", "Widget", " ">>, <<"Gadget">>, <<"4.5", " ", "stars">>,
      <<"$", "9.99">>, <<"$", "5", " ", "stars">>, <<" ">> }

ProductFragments == { Fragment(t, <<>>) : t \in ProductTexts }

Json(d) == [data |-> d]
Entry(r) == [results |-> r]

MalformedResponses ==
    { Json(None), Json(Some(<<>>)), Json(Some(<<Entry(None)>>)) }

CategoryResponses ==
    MalformedResponses \cup
    { Json(Some(<<Entry(Some(p))>>)) : p \in DistinctSeqsUpTo(CategoryFragments, MaxLinks) }

ProductResponses ==
    MalformedResponses \cup
    { Json(Some(<<Entry(Some(p))>>)) : p \in SeqsUpTo(ProductFragments, MaxFragments) }

ResponsesFor(selector) ==
    IF selector = SECTION_SELECTOR THEN CategoryResponses ELSE ProductResponses

\* what one requests.post can do: status 200 with a JSON body, a 4xx/5xx
\* status, a status that is neither 200 nor an error (204, 304, ...), or a
\* transport failure (requests.exceptions.RequestException)
Outcome(k, b) == [kind |-> k, body |-> b]
Outcomes(selector) ==
    { Outcome("ok", r) : r \in ResponsesFor(selector) } \cup
    { Outcome(k, Json(None)) : k \in {"http_error", "other_status", "transport"} }

(***************************************************************************)
(* scrape.py fetch_page                                                    *)
(***************************************************************************)
\* response.raise_for_status(): raises HTTPError for 4xx/5xx only
raise_for_status_raises(kind) == kind = "http_error"

\* a changed should_retry: gives up one failure early
should_retry_early(a) == a + 1 < max_retries

\* line 49: `if attempt < max_retries` after the increment, else the terminal raise
should_retry(a) == a < max_retries

\* lines 39-53, one pass of the while loop: requests.post and what follows it
fetch_attempt(a, o) ==
    IF o.kind = "ok"
    THEN [fstate |-> "returned", attempt |-> a, response |-> Some(o.body)]
    ELSE IF o.kind = "transport" \/ raise_for_status_raises(o.kind)
    THEN IF should_retry(a + 1)
         THEN [fstate |-> "active", attempt |-> a + 1, response |-> None]
         ELSE [fstate |-> "raised", attempt |-> a + 1, response |-> None]
    ELSE [fstate |-> "active", attempt |-> a, response |-> None]

\* lines 37-53, the whole loop over the outcomes `net` the network produces, in
\* order: "returned" with the JSON, "raised", or "active" when every outcome
\* of `net` has been consumed and the loop has not ended
RECURSIVE fetch_loop(_, _, _)
fetch_loop(net, a, n) ==
    IF ~(a < max_retries) THEN [fstate |-> "returned", response |-> None]
    ELSE IF n = Len(net) THEN [fstate |-> "active", response |-> None]
    ELSE LET r == fetch_attempt(a, net[n + 1])
         IN  IF r.fstate = "active"
             THEN fetch_loop(net, r.attempt, n + 1)
             ELSE [fstate |-> r.fstate, response |-> r.response]

fetch_page(net) == fetch_loop(net, 0, 0)

\* the failures that can precede the last outcome of a call
FailureRuns ==
    SeqsUpTo({ Outcome(k, Json(None)) : k \in {"http_error", "other_status", "transport"} },
             MaxPosts - 1)

\* what a call fetch_page(url, [SECTION_SELECTOR]) can end as
CategoryFetchResults ==
    { fetch_page(Append(f, o)) : f \in FailureRuns, o \in Outcomes(SECTION_SELECTOR) }

\* what a call fetch_page(url, [PRODUCT_SELECTOR]) can end as
ProductFetchResults ==
    { fetch_page(Append(f, o)) : f \in FailureRuns, o \in Outcomes(PRODUCT_SELECTOR) }

\* fetch_page(url, selectors): entry, up to `attempt = 0`
FetchCall ==
    /\ fstate = "idle"
    /\ \E url \in {RootUrl, BASE_URL \o <<"books/">>},
          selector \in {SECTION_SELECTOR, PRODUCT_SELECTOR} :
          request' = Some([url |-> url, selector |-> selector])
    /\ fstate' = "active"
    /\ attempt' = 0
    /\ posts' = 0
    /\ response' = None
    /\ UNCHANGED <<crawlVars, ingestVars, resolveVars>>

\* one pass of the while loop
FetchAttempt ==
    /\ fstate = "active"
    /\ attempt < max_retries
    /\ posts < MaxPosts
    /\ \E o \in Outcomes(Val(request).selector) :
          LET r == fetch_attempt(attempt, o)
          IN  /\ fstate' = r.fstate
              /\ attempt' = r.attempt
              /\ response' = r.response
              /\ posts' = posts + 1
    /\ UNCHANGED <<request, crawlVars, ingestVars, resolveVars>>

(***************************************************************************)
(* db.py save_category_to_db over the table of setup_categories_table      *)
(***************************************************************************)
Row(i, n, u, p) == [id |-> i, category_name |-> n, url |-> u, parent_id |-> p]

\* a changed UrlExists: the column is not UNIQUE
UrlExists_unconstrained(store, url) == FALSE

\* url TEXT UNIQUE: the insert raises sqlite3.IntegrityError
UrlExists(store, url) == \E k \in 1..Len(store) : store[k].url = url

\* id INTEGER PRIMARY KEY AUTOINCREMENT; no row is ever deleted
NextId(store) == Len(store) + 1

\* a changed save_category_to_db: the parent is not written
save_category_to_db_orphan(store, category_name, url, parent_id) ==
    IF UrlExists(store, url)
    THEN [store |-> store, id |-> None]
    ELSE [store |-> Append(store, Row(NextId(store), category_name, url, None)),
          id |-> Some(NextId(store))]

\* lines 208-221
save_category_to_db(store, category_name, url, parent_id) ==
    IF UrlExists(store, url)
    THEN [store |-> store, id |-> None]
    ELSE [store |-> Append(store, Row(NextId(store), category_name, url, parent_id)),
          id |-> Some(NextId(store))]

(***************************************************************************)
(* scrape.py scrape_category                                               *)
(***************************************************************************)
Frame(u, d, p) ==
    [url |-> u, depth |-> d, parent_id |-> p, at |-> "entry", results |-> <<>>, i |-> 0]

Top == stack[Len(stack)]
SetTop(f) == [stack EXCEPT ![Len(stack)] = f]

\* a changed depth_exceeded: the cutoff one level too deep
depth_exceeded_late(depth) == depth > MaxDepth + 1

\* line 70: `if depth > 3`
depth_exceeded(depth) == depth > MaxDepth

\* line 76: `'data' not in response or len(response['data']) == 0`
no_data(resp) == resp.data = None \/ Len(Val(resp.data)) = 0

\* lines 83-88: the three counters, created together by the first call that gets data
ZeroProgress == [d \in 1..MaxDepth |-> [current |-> 0, total |-> 0]]
\* a changed init_progress: every call starts its counters afresh
init_progress_reset(p) == ZeroProgress

init_progress(p) == IF p = None THEN ZeroProgress ELSE Val(p)

\* lines 91-96
add_total(p, depth, n) ==
    IF depth \in 1..MaxDepth THEN [p EXCEPT ![depth].total = @ + n] ELSE p

\* lines 103-108
add_current(p, depth) ==
    IF depth \in 1..MaxDepth THEN [p EXCEPT ![depth].current = @ + 1] ELSE p

\* a changed recurse_into: the call is made whatever the insert returned
recurse_always(current_category_id) == TRUE

\* line 119: `if current_category_id:`
recurse_into(current_category_id) == current_category_id # None

\* a changed push_call: the call is queued behind the calls already active
enqueue_call(stk, frame) == <<frame>> \o stk

\* lines 121-123: the recursive call runs now, its caller waits for it
push_call(stk, frame) == Append(stk, frame)

\* a changed CrawlStart: the root is stored as a category before it is crawled
CrawlStart_stores_root ==
    /\ cpc = "idle"
    /\ fstate = "idle"
    /\ cpc' = "running"
    /\ categories' = save_category_to_db(categories, <<"Best Sellers">>, RootUrl, None).store
    /\ stack' = <<Frame(RootUrl, 1, None)>>
    /\ UNCHANGED <<progress, fetched, fetchVars, ingestVars, resolveVars>>

\* scrape_categories_initial: the top-level call scrape_category(url, depth=1, conn)
CrawlStart ==
    /\ cpc = "idle"
    /\ fstate = "idle"
    /\ cpc' = "running"
    /\ stack' = <<Frame(RootUrl, 1, None)>>
    /\ UNCHANGED <<categories, progress, fetched, fetchVars, ingestVars, resolveVars>>

\* lines 70-74: the depth check, then the call of fetch_page
ScrapeEntry ==
    /\ cpc = "running" /\ stack # <<>> /\ Top.at = "entry"
    /\ IF depth_exceeded(Top.depth)
       THEN /\ stack' = Front(stack)
            /\ UNCHANGED <<cpc, response, fetched>>
       ELSE /\ fetched' = Append(fetched, [url |-> Top.url, depth |-> Top.depth,
                                             rows |-> Len(categories)])
            /\ \E r \in CategoryFetchResults :
                  /\ response' = r.response
                  /\ cpc' = IF r.fstate = "raised" THEN "raising" ELSE cpc
                  /\ stack' = SetTop([Top EXCEPT !.at =
                                 IF r.fstate = "returned" THEN "fetched" ELSE "fetching"])
    /\ UNCHANGED <<fstate, request, attempt, posts, categories, progress, ingestVars, resolveVars>>

\* lines 76-96: fetch_page returned
ScrapeAfterFetch ==
    /\ cpc = "running" /\ stack # <<>> /\ Top.at = "fetched"
    /\ response' = None
    /\ LET resp == Val(response)
       IN  IF no_data(resp)
           THEN /\ stack' = Front(stack)
                /\ UNCHANGED <<cpc, progress>>
           ELSE IF Val(resp.data)[1].results = None
           THEN \* response['data'][0]['results'] raises KeyError
                /\ cpc' = "raising"
                /\ UNCHANGED <<stack, progress>>
           ELSE LET res == Val(Val(resp.data)[1].results)
                IN  /\ progress' = Some(add_total(init_progress(progress),
                                                  Top.depth, Len(res)))
                    /\ stack' = SetTop([Top EXCEPT !.at = "loop",
                                                   !.results = res, !.i = 1])
                    /\ UNCHANGED cpc
    /\ UNCHANGED <<fstate, request, attempt, posts, categories, fetched, ingestVars, resolveVars>>

\* lines 98-123: one iteration of `for result in results`
ScrapeLoopStep ==
    /\ cpc = "running" /\ stack # <<>> /\ Top.at = "loop"
    /\ Top.i <= Len(Top.results)
    /\ LET result == Top.results[Top.i]
           category_name == result.text
           category_url == extract_url_from_anchor(result.html)
           next == [Top EXCEPT !.i = @ + 1]
       IN  IF category_url = None
           THEN /\ stack' = SetTop(next)
                /\ UNCHANGED <<categories, progress>>
           ELSE LET saved == save_category_to_db(categories, category_name,
                                                 Val(category_url), Top.parent_id)
                IN  /\ progress' = Some(add_current(Val(progress), Top.depth))
                    /\ categories' = saved.store
                    /\ stack' = IF recurse_into(saved.id)
                                THEN push_call(SetTop(next),
                                               Frame(Val(category_url), Top.depth + 1, saved.id))
                                ELSE SetTop(next)
    /\ UNCHANGED <<cpc, fetched, fetchVars, ingestVars, resolveVars>>

\* lines 125-133: the loop is over, the call returns the counters
ScrapeReturn ==
    /\ cpc = "running" /\ stack # <<>> /\ Top.at = "loop"
    /\ Top.i > Len(Top.results)
    /\ stack' = Front(stack)
    /\ UNCHANGED <<cpc, categories, progress, fetched, fetchVars, ingestVars, resolveVars>>

\* a changed Unwind: the caller catches the exception and goes on with its loop
Unwind_caught ==
    /\ cpc = "raising" /\ stack # <<>>
    /\ stack' = Front(stack)
    /\ cpc' = "running"
    /\ UNCHANGED <<categories, progress, fetched, fetchVars, ingestVars, resolveVars>>

\* an exception leaves one scrape_category call: no frame has a handler
Unwind ==
    /\ cpc = "raising" /\ stack # <<>>
    /\ stack' = Front(stack)
    /\ UNCHANGED <<cpc, categories, progress, fetched, fetchVars, ingestVars, resolveVars>>

\* scrape_categories_initial: `except Exception` takes what scrape_category raised
CrawlFailed ==
    /\ cpc = "raising" /\ stack = <<>>
    /\ cpc' = "error"
    /\ UNCHANGED <<stack, categories, progress, fetched, fetchVars, ingestVars, resolveVars>>

\* scrape_categories_initial: the outermost call returned; the summary print
\* subscripts the counters, a TypeError when they are still None
CrawlReturn ==
    /\ cpc = "running" /\ stack = <<>>
    /\ cpc' = IF progress = None THEN "error" ELSE "completed"
    /\ UNCHANGED <<stack, categories, progress, fetched, fetchVars, ingestVars, resolveVars>>

(***************************************************************************)
(* db.py: the products table                                               *)
(***************************************************************************)
\* the id column is left out: nothing reads it
ProductRow(t, r, p, c) == [title |-> t, rating |-> r, price |-> p, category_id |-> c]

save_product_to_db(store, t, r, p, c) == Append(store, ProductRow(t, r, p, c))

check_products_exist_by_category(store, c) ==
    Len(SelectSeq(store, LAMBDA row : row.category_id = c)) > 0

\* a changed delete_products_by_category: the DELETE matches no row
delete_products_by_category_none(store, c) == store

delete_products_by_category(store, c) ==
    SelectSeq(store, LAMBDA row : row.category_id # c)

\* a changed get_category_by_id: an unknown id falls back to the first row
get_category_by_id_default(store, c) ==
    IF store = <<>> THEN None
    ELSE LET row == IF \E j \in 1..Len(store) : store[j].id = c
                    THEN store[CHOOSE j \in 1..Len(store) : store[j].id = c]
                    ELSE store[1]
         IN  Some([category_name |-> row.category_name, url |-> row.url])

\* lines 199-205: SELECT category_name, url ... WHERE id = ?; None when no row
get_category_by_id(store, c) ==
    IF \E j \in 1..Len(store) : store[j].id = c
    THEN LET row == store[CHOOSE j \in 1..Len(store) : store[j].id = c]
         IN  Some([category_name |-> row.category_name, url |-> row.url])
    ELSE None

(***************************************************************************)
(* utils.py process_products                                               *)
(***************************************************************************)
\* str.strip(): the text without its leading and trailing whitespace
strip(text) ==
    LET inked == {j \in 1..Len(text) : text[j] # " "}
    IN  IF inked = {} THEN <<>>
        ELSE SubSeq(text, Min(inked), CHOOSE x \in inked : \A y \in inked : y <= x)

\* `'stars' in text`, `'$' in text`
contains(text, tok) == \E j \in 1..Len(text) : text[j] = tok

\* line 24: `text and not 'stars' in text and not '$' in text`
is_title(text) == text # <<>> /\ ~contains(text, "stars") /\ ~contains(text, "$")

\* a changed process_result: `$` is looked for before `stars`
process_result_price_first(st, result, c) ==
    LET text == strip(result.text)
    IN  IF is_title(text)
        THEN [title |-> Some(text), rating |-> None, price |-> None,
              products |-> IF st.title # None
                           THEN save_product_to_db(st.products, Val(st.title),
                                                   st.rating, st.price, c)
                           ELSE st.products]
        ELSE IF contains(text, "$")
        THEN [st EXCEPT !.price = Some(text)]
        ELSE IF contains(text, "stars")
        THEN [st EXCEPT !.rating = Some(text)]
        ELSE st

\* a changed process_result: a record is saved as soon as its title is read
process_result_eager(st, result, c) ==
    LET text == strip(result.text)
    IN  IF is_title(text)
        THEN [title |-> Some(text), rating |-> None, price |-> None,
              products |-> save_product_to_db(st.products, text, None, None, c)]
        ELSE IF contains(text, "stars")
        THEN [st EXCEPT !.rating = Some(text)]
        ELSE IF contains(text, "$")
        THEN [st EXCEPT !.price = Some(text)]
        ELSE st

\* a changed process_result: a new title keeps the rating and price of the last
process_result_carry(st, result, c) ==
    LET text == strip(result.text)
    IN  IF is_title(text)
        THEN [st EXCEPT !.title = Some(text),
                        !.products = IF st.title # None
                                     THEN save_product_to_db(st.products, Val(st.title),
                                                             st.rating, st.price, c)
                                     ELSE st.products]
        ELSE IF contains(text, "stars")
        THEN [st EXCEPT !.rating = Some(text)]
        ELSE IF contains(text, "$")
        THEN [st EXCEPT !.price = Some(text)]
        ELSE st

\* lines 21-40, the body of the for loop: st holds the locals and the table
process_result(st, result, c) ==
    LET text == strip(result.text)
    IN  IF is_title(text)
        THEN [title |-> Some(text), rating |-> None, price |-> None,
              products |-> IF st.title # None
                           THEN save_product_to_db(st.products, Val(st.title),
                                                   st.rating, st.price, c)
                           ELSE st.products]
        ELSE IF contains(text, "stars")
        THEN [st EXCEPT !.rating = Some(text)]
        ELSE IF contains(text, "$")
        THEN [st EXCEPT !.price = Some(text)]
        ELSE st

\* a changed process_flush: what is left is saved even when no title was read
process_flush_orphan(st, c) ==
    save_product_to_db(st.products, IF st.title # None THEN Val(st.title) ELSE <<>>,
                       st.rating, st.price, c)

\* lines 43-44: the last product
process_flush(st, c) ==
    IF st.title # None
    THEN save_product_to_db(st.products, Val(st.title), st.rating, st.price, c)
    ELSE st.products

(***************************************************************************)
(* scrape.py fetch_products_by_category                                    *)
(***************************************************************************)
\* what the user can type at the confirmation prompt
Answers == {"yes", " YES ", "no", ""}

\* input(...).strip().lower()
strip_lower(answer) == IF answer = " YES " THEN "yes" ELSE answer

\* the ids a user asks for: a stored category and one that is not stored
RequestedIds == {1, 3}

IngestOver == {"idle", "done", "aborted", "not_found", "no_data", "raised"}

\* lines 161-169: the call, up to the prompt
IngestCall ==
    /\ ipc \in IngestOver
    /\ \E c \in RequestedIds :
          /\ category_id' = c
          /\ ipc' = IF check_products_exist_by_category(products, c)
                    THEN "confirm" ELSE "lookup"
    /\ request' = None /\ response' = None
    /\ removed' = 0
    /\ results' = <<>> /\ pos' = 0
    /\ title' = None /\ rating' = None /\ price' = None
    /\ UNCHANGED <<fstate, attempt, posts, products, crawlVars, resolveVars>>

\* a changed IngestConfirm: the products are deleted before the answer is read
IngestConfirm_deletes_first ==
    /\ ipc = "confirm"
    /\ products' = delete_products_by_category(products, category_id)
    /\ removed' = Len(products) - Len(products')
    /\ \E answer \in Answers :
          ipc' = IF strip_lower(answer) # "yes" THEN "aborted" ELSE "lookup"
    /\ UNCHANGED <<category_id, parseVars, fetchVars, crawlVars, resolveVars>>

\* lines 163-169: the answer to the prompt
IngestConfirm ==
    /\ ipc = "confirm"
    /\ \E answer \in Answers :
          IF strip_lower(answer) # "yes"
          THEN ipc' = "aborted" /\ UNCHANGED <<products, removed>>
          ELSE /\ products' = delete_products_by_category(products, category_id)
               /\ removed' = Len(products) - Len(products')
               /\ ipc' = "lookup"
    /\ UNCHANGED <<category_id, parseVars, fetchVars, crawlVars, resolveVars>>

\* lines 172-182: the category lookup, then the call of fetch_page
IngestLookup ==
    /\ ipc = "lookup"
    /\ LET result == get_category_by_id(categories, category_id)
       IN  IF result = None
           THEN ipc' = "not_found" /\ UNCHANGED <<request, response>>
           ELSE /\ request' = Some([url |-> Val(result).url, selector |-> PRODUCT_SELECTOR])
                /\ \E r \in ProductFetchResults :
                      /\ response' = r.response
                      /\ ipc' = CASE r.fstate = "returned" -> "fetched"
                                  [] r.fstate = "raised" -> "raised"
                                  [] OTHER -> "fetching"
    /\ UNCHANGED <<fstate, attempt, posts, category_id, products, removed, parseVars, crawlVars, resolveVars>>

\* lines 183-191: fetch_page returned; process_products is entered
IngestAfterFetch ==
    /\ ipc = "fetched"
    /\ LET resp == Val(response)
       IN  IF no_data(resp)
           THEN ipc' = "no_data" /\ UNCHANGED parseVars
           ELSE IF Val(resp.data)[1].results = None
           THEN \* data[0]['results'] raises KeyError
                ipc' = "raised" /\ UNCHANGED parseVars
           ELSE /\ results' = Val(Val(resp.data)[1].results)
                /\ pos' = 1
                /\ title' = None /\ rating' = None /\ price' = None
                /\ ipc' = "parse"
    /\ UNCHANGED <<category_id, products, removed, fetchVars, crawlVars, resolveVars>>

\* utils.py lines 20-40: one iteration of `for result in results`
ProcessResult ==
    /\ ipc = "parse"
    /\ pos <= Len(results)
    /\ LET st == process_result([title |-> title, rating |-> rating, price |-> price,
                                 products |-> products], results[pos], category_id)
       IN  /\ title' = st.title
           /\ rating' = st.rating
           /\ price' = st.price
           /\ products' = st.products
    /\ pos' = pos + 1
    /\ UNCHANGED <<ipc, category_id, removed, results, fetchVars, crawlVars, resolveVars>>

\* utils.py lines 42-44: the loop is over
ProcessFlush ==
    /\ ipc = "parse"
    /\ pos > Len(results)
    /\ products' = process_flush([title |-> title, rating |-> rating, price |-> price,
                                  products |-> products], category_id)
    /\ ipc' = "done"
    /\ UNCHANGED <<category_id, removed, parseVars, fetchVars, crawlVars, resolveVars>>

(***************************************************************************)
(* Claims                                                                  *)
(***************************************************************************)
Max(S) == CHOOSE x \in S : \A y \in S : y <= x
IsPrefix(s, t) == Len(s) <= Len(t) /\ SubSeq(t, 1, Len(s)) = s
CatRows(store, c) == SelectSeq(store, LAMBDA row : row.category_id = c)

\* the indices of the title-classified fragments of res, and the fragments
\* between a title and the next title (or the end of the input)
TitleIdx(res) == {j \in 1..Len(res) : is_title(strip(res[j].text))}
NthTitle(res, n) ==
    CHOOSE j \in TitleIdx(res) : Cardinality({i \in TitleIdx(res) : i <= j}) = n
Window(res, j) ==
    {i \in (j + 1)..Len(res) : \A t \in TitleIdx(res) : t > j => i < t}

\* C1: when process_products has consumed its input, the rows it saved are
\* one per title-classified fragment, in input order, each carrying the trimmed
\* title; a row's rating (price) is null unless a fragment containing `stars`
\* (`$`) lies between its title and the next title or the end of the input.
C1_OneRecordPerTitle ==
    ipc = "done" =>
        LET rows == CatRows(products, category_id)
        IN  /\ Len(rows) = Cardinality(TitleIdx(results))
            /\ \A n \in 1..Len(rows) :
                  LET j == NthTitle(results, n)
                  IN  /\ rows[n].title = strip(results[j].text)
                      /\ rows[n].rating # None =>
                            \E i \in Window(results, j) : contains(results[i].text, "stars")
                      /\ rows[n].price # None =>
                            \E i \in Window(results, j) : contains(results[i].text, "$")

\* two titles were read: the first got a rating, the second neither rating nor price
C1_Witness ==
    /\ ipc = "done"
    /\ Len(CatRows(products, category_id)) = 2
    /\ CatRows(products, category_id)[1].rating # None
    /\ CatRows(products, category_id)[2].rating = None
    /\ CatRows(products, category_id)[2].price = None

\* C2: fetch_page is still trying after two failed attempts, returns the JSON
\* of a 200 response whatever failed before it, raises exactly when the third
\* attempt has failed, and when every post so far failed there were at most
\* three posts.
C2_ThirdAttemptThenRaise ==
    /\ (attempt = 2 /\ posts = 2) => fstate = "active"
    /\ fstate = "returned" => (response # None /\ attempt < max_retries)
    /\ fstate = "raised" <=> attempt = max_retries
    /\ attempt = posts => posts <= max_retries
    /\ (fstate = "raised" /\ attempt = posts) => posts = 3

\* attempts 1 and 2 failed and attempt 3 returned status 200
C2_Witness ==
    fstate = "returned" /\ attempt = 2 /\ posts = 3 /\ response # None

\* C3: as long as no post returned status 200, every post was counted as a
\* failed attempt and at most max_retries posts were made.
C3_EveryNon200Counted ==
    fstate \in {"active", "raised"} => (attempt = posts /\ posts <= max_retries)

\* C4: no fetch is issued at depth 4 or more, and a call with depth > 3
\* returns at once, leaving the store, the counters and the fetch log as they were.
C4_NoFetchBelowCutoff ==
    /\ [](\A k \in 1..Len(fetched) : fetched[k].depth <= 3)
    /\ [][(cpc = "running" /\ stack # <<>> /\ Top.at = "entry" /\ Top.depth > 3)
            => (/\ stack' = Front(stack)
                /\ categories' = categories
                /\ progress' = progress
                /\ fetched' = fetched)]_vars

\* a call at depth 4 is active while its caller still has results to expand
C4_Witness ==
    /\ cpc = "running" /\ Len(stack) = 4
    /\ Top.depth = 4 /\ Top.at = "entry"
    /\ stack[3].i <= Len(stack[3].results)

\* the top call is about to save a category whose URL is already stored
DuplicateSave ==
    /\ cpc = "running" /\ stack # <<>> /\ Top.at = "loop"
    /\ Top.i <= Len(Top.results)
    /\ extract_url_from_anchor(Top.results[Top.i].html) # None
    /\ UrlExists(categories, Val(extract_url_from_anchor(Top.results[Top.i].html)))

\* C5: no two category rows share a url, and saving a url that is already
\* stored returns null, leaves the table as it was and raises nothing.
C5_UrlUnique ==
    /\ [](\A j, k \in 1..Len(categories) :
             j # k => categories[j].url # categories[k].url)
    /\ [](DuplicateSave =>
             save_category_to_db(categories, Top.results[Top.i].text,
                 Val(extract_url_from_anchor(Top.results[Top.i].html)),
                 Top.parent_id) = [store |-> categories, id |-> None])
    /\ [][DuplicateSave => (categories' = categories /\ cpc' = "running")]_vars

\* more saves were made than rows exist: one of them met a stored url
C5_Witness ==
    /\ progress # None
    /\ Val(progress)[1].current + Val(progress)[2].current + Val(progress)[3].current
          > Len(categories)
    /\ Len(categories) > 0


\* C6: the category rows only ever grow; and once an exception is on its
\* way out of the crawl, every step removes one scrape_category call until none
\* is left, nothing more is fetched and nothing more is stored.
C6_FailureUnwindsKeepsRows ==
    /\ [][IsPrefix(categories, categories')]_vars
    /\ [][(cpc = "raising" \/ cpc = "error") =>
            (/\ categories' = categories
             /\ fetched' = fetched
             /\ stack = <<>> => cpc' = "error"
             /\ stack # <<>> => (cpc' = "raising" /\ stack' = Front(stack)))]_vars

\* a fetch two calls deep has exhausted its retries while a row is stored
\* and the outermost call still has a sibling to expand
C6_Witness ==
    /\ cpc = "raising" /\ Len(stack) >= 2 /\ Top.at = "fetching"
    /\ Len(categories) >= 1
    /\ stack[1].i <= Len(stack[1].results)

\* the rating and the price of the record opened by the title at index j: the
\* last fragment of its window classified as rating, as price
RatingIdx(res, j) ==
    {i \in Window(res, j) : contains(strip(res[i].text), "stars")}
PriceIdx(res, j) ==
    {i \in Window(res, j) : /\ ~contains(strip(res[i].text), "stars")
                            /\ contains(strip(res[i].text), "$")}
Segment(res, c) ==
    [n \in 1..Cardinality(TitleIdx(res)) |->
        LET j == NthTitle(res, n)
        IN  ProductRow(strip(res[j].text),
                       IF RatingIdx(res, j) = {} THEN None
                       ELSE Some(strip(res[Max(RatingIdx(res, j))].text)),
                       IF PriceIdx(res, j) = {} THEN None
                       ELSE Some(strip(res[Max(PriceIdx(res, j))].text)),
                       c)]

\* C7: when an ingestion run has completed, the product rows of its category
\* are exactly the records segmented from the fragments of that run, and no
\* step of a run changes the rows of another category.
C7_FullReplace ==
    /\ [](ipc = "done" =>
             CatRows(products, category_id) = Segment(results, category_id))
    /\ [][\A c \in 1..3 : c # category_id' =>
             CatRows(products', c) = CatRows(products, c)]_vars

\* a completed run that deleted earlier rows of its category and stored new ones
C7_Witness ==
    /\ ipc = "done" /\ removed > 0
    /\ Len(CatRows(products, category_id)) > 0
    /\ Len(CatRows(products, category_id)) # removed

\* the JSON lacks `data`, has an empty `data`, or its first entry lacks `results`
ShapeMismatch(resp) == no_data(resp) \/ Val(resp.data)[1].results = None

\* C8: a scrape_category call that gets a response of the wrong shape returns
\* to its caller without an exception and without storing a category.
C8_ShapeMismatchIsEmpty ==
    [][(/\ cpc = "running" /\ stack # <<>> /\ Top.at = "fetched"
        /\ ShapeMismatch(Val(response)))
          => (/\ cpc' = "running"
              /\ stack' = Front(stack)
              /\ categories' = categories)]_vars

\* C9 as claimed: after a save that met a stored url, a call for that url at
\* depth + 1 with a null parent is made.
C9_RecursesOnDuplicate ==
    [][DuplicateSave
         => (/\ Len(stack') = Len(stack) + 1
             /\ Last(stack').depth = Top.depth + 1
             /\ Last(stack').parent_id = None
             /\ Last(stack').url =
                   Val(extract_url_from_anchor(Top.results[Top.i].html)))]_vars

\* C9 as amended: a save that met a stored url is followed by no call and no
\* row, and no call below depth 1 ever has a null parent.
C9_SkipsDuplicate ==
    /\ [][DuplicateSave
            => (Len(stack') = Len(stack) /\ categories' = categories)]_vars
    /\ [](\A k \in 1..Len(stack) : stack[k].depth >= 2 => stack[k].parent_id # None)

\* the top call has just met a url that another call had stored
C9_Witness ==
    /\ cpc = "running" /\ stack # <<>> /\ Top.at = "loop" /\ Top.i > 1
    /\ LET u == extract_url_from_anchor(Top.results[Top.i - 1].html)
       IN  /\ u # None
           /\ \E k \in 1..Len(categories) :
                 categories[k].url = Val(u) /\ categories[k].parent_id # Top.parent_id

\* the ids of the rows above row k in the tree
RECURSIVE Ancestors(_, _)
Ancestors(store, k) ==
    IF store[k].parent_id = None THEN {}
    ELSE {Val(store[k].parent_id)} \cup Ancestors(store, Val(store[k].parent_id))

\* the rows stored between a row and one of its children are descendants of that row
SubtreeBeforeSibling ==
    \A t, s \in 1..Len(categories) :
        (categories[t].parent_id # None /\ Val(categories[t].parent_id) < s /\ s < t)
            => Val(categories[t].parent_id) \in Ancestors(categories, s)

\* C10 as claimed: whenever a url that some row carries was fetched, that row
\* was stored by then; and the rows of a child's subtree are stored before the
\* child's next sibling.
C10_PersistBeforeAnyFetch ==
    /\ \A k \in 1..Len(categories) : \A f \in 1..Len(fetched) :
          fetched[f].url = categories[k].url => fetched[f].rows >= k
    /\ SubtreeBeforeSibling

\* C10 as amended: every call below depth 1 is for the url of the row it got
\* as parent, and when it fetched that url the row was the last one stored:
\* the child is stored, then fetched, before anything else is stored; and the
\* rows of a child's subtree are stored before the child's next sibling.
C10_PersistBeforeRecurse ==
    /\ \A k \in 1..Len(stack) :
          stack[k].depth >= 2 =>
             /\ stack[k].parent_id # None
             /\ Val(stack[k].parent_id) <= Len(categories)
             /\ categories[Val(stack[k].parent_id)].url = stack[k].url
    /\ \A f \in 1..Len(fetched) :
          fetched[f].depth >= 2 =>
             /\ fetched[f].rows \in 1..Len(categories)
             /\ categories[fetched[f].rows].url = fetched[f].url
    /\ SubtreeBeforeSibling

\* a child and its own child were stored before the child's next sibling
C10_Witness ==
    /\ Len(categories) >= 3
    /\ categories[1].parent_id = None
    /\ categories[2].parent_id = Some(1)
    /\ categories[3].parent_id = None
    /\ \E f \in 1..Len(fetched) : fetched[f].depth = 3

\* no category row carries the id the ingestion was called with
NoCategoryRow == ~\E j \in 1..Len(categories) : categories[j].id = category_id

\* C11: an ingestion for an id that no category row carries ends as not-found
\* at the lookup: that step issues no fetch, stores no product, changes no
\* category and raises nothing, and the next ingestion can be started.
C11_NotFoundAbortsOnly ==
    /\ [](ipc = "not_found" =>
             (NoCategoryRow /\ request = None /\ response = None /\ ENABLED IngestCall))
    /\ [][(ipc = "lookup" /\ NoCategoryRow)
            => (/\ ipc' = "not_found"
                /\ products' = products
                /\ categories' = categories
                /\ request' = None
                /\ response' = None)]_vars

\* id 3 was asked for while the products of another category are stored
C11_Witness ==
    ipc = "not_found" /\ category_id = 3 /\ products # <<>> /\ request = None

\* the attributes of a fragment that are a href with a value, however quoted
Hrefs(html) == {k \in 1..Len(html) : html[k].name = "href" /\ html[k].value # <<>>}

\* the value begins with a URL scheme the crawler knows
IsAbsoluteUrl(v) ==
    v # <<>> /\ v[1] \in {"https://www.amazon.com/", "https://", "http://"}

\* C12 as claimed: extract_url_from_anchor returns null for a fragment without a href;
\* otherwise it returns the value of the fragment's first href, as it is when
\* that value is an absolute URL and behind the base URL in every other case,
\* whatever follows that first href.
C12_FirstHrefResolved ==
    rpc = "returned" =>
        IF Hrefs(html_string) = {}
        THEN resolved = None
        ELSE LET v == html_string[Min(Hrefs(html_string))].value
             IN  resolved = Some(IF IsAbsoluteUrl(v) THEN v ELSE BASE_URL \o v)

\* the text name="value" of the attribute contains href="..." with a value
PatternOccurs(a) ==
    /\ a.name \in {"href", "data-href"}
    /\ a.quote = "double"
    /\ Len(a.value) > 0

\* C12 as amended: the result is null exactly when href="..." with a value
\* occurs nowhere in the fragment; otherwise it is the value of the first
\* occurrence, as it is when it begins with the characters http and behind the
\* base URL in every other case, and every fragment that agrees with this one
\* up to that first occurrence gives the same result.
C12_FirstPatternMatch ==
    rpc = "returned" =>
        /\ resolved = None <=> \A k \in 1..Len(html_string) : ~PatternOccurs(html_string[k])
        /\ \A k \in 1..Len(html_string) :
              (PatternOccurs(html_string[k])
                 /\ \A j \in 1..(k - 1) : ~PatternOccurs(html_string[j]))
              => /\ resolved = Some(IF html_string[k].value[1] \in HttpTokens
                                    THEN html_string[k].value
                                    ELSE BASE_URL \o html_string[k].value)
                 /\ \A h \in HtmlInputs :
                       IsPrefix(SubSeq(html_string, 1, k), h)
                          => extract_url_from_anchor(h) = resolved

\* a relative href was resolved although the fragment goes on with an absolute one
C12_Witness ==
    /\ rpc = "returned" /\ Len(html_string) >= 2
    /\ html_string[1] = Attr("href", <<"dp/B00">>)
    /\ html_string[2] = Attr("href", <<"https://", "a.co/x">>)
    /\ resolved = Some(BASE_URL \o <<"dp/B00">>)

\* C13: once the counters exist they stay, and no step of a crawl lowers the
\* `current` or the `total` of any depth: not the move to the next sibling, not
\* the start of a child call, not the return from a subtree.
C13_CountersCumulative ==
    [][progress # None
         => (/\ progress' # None
             /\ \A d \in 1..MaxDepth :
                   /\ Val(progress')[d].current >= Val(progress)[d].current
                   /\ Val(progress')[d].total >= Val(progress)[d].total)]_vars

\* the outermost call is back from the subtree of its first child, which
\* counted at depth 2, and has the next sibling to expand
C13_Witness ==
    /\ cpc = "running" /\ Len(stack) = 1 /\ Top.at = "loop"
    /\ Top.i = 2 /\ Top.i <= Len(Top.results)
    /\ Val(progress)[1].current = 1
    /\ Val(progress)[2].current >= 1

\* the page has no fragment: `data` absent or empty, or an empty `results`
ZeroFragments(resp) ==
    \/ no_data(resp)
    \/ (Val(resp.data)[1].results # None /\ Val(Val(resp.data)[1].results) = <<>>)

\* the outermost call, for the root URL, is the only active call
RootCallOnly == cpc = "running" /\ Len(stack) = 1 /\ Top.url = RootUrl /\ Top.depth = 1

\* C14: when the root's page has no fragment, the outermost call returns with
\* that one fetch made and no row stored, and after it has returned the crawl
\* ends with no further fetch or row; the outermost call stores nothing before
\* it expands its page, and every row ever stored is a fragment of the page
\* the storing call fetched, carrying that call's parent.
C14_RootNotPersisted ==
    /\ []((RootCallOnly /\ Top.at \in {"entry", "fetching", "fetched"}) => categories = <<>>)
    /\ []((RootCallOnly /\ Top.at = "loop" /\ Top.results = <<>>)
             => (Len(fetched) = 1 /\ categories = <<>>))
    /\ [][(RootCallOnly /\ Top.at = "fetched" /\ ZeroFragments(Val(response)))
            => (/\ Len(fetched') = 1 /\ categories' = <<>>
                /\ cpc' = "running"
                /\ \/ stack' = <<>>
                   \/ (Len(stack') = 1 /\ Last(stack').at = "loop"
                         /\ Last(stack').results = <<>>))]_vars
    /\ [][(RootCallOnly /\ Top.at = "loop" /\ Top.results = <<>>)
            => (stack' = <<>> /\ cpc' = "running")]_vars
    /\ [][(cpc \in {"running", "completed", "error"} /\ stack = <<>>)
            => (/\ stack' = <<>> /\ fetched' = fetched /\ categories' = categories
                /\ cpc' \in {"completed", "error"})]_vars
    /\ [][categories' # categories
            => (/\ cpc = "running" /\ stack # <<>> /\ Top.at = "loop"
                /\ Top.i <= Len(Top.results)
                /\ extract_url_from_anchor(Top.results[Top.i].html) # None
                /\ categories' = Append(categories,
                       Row(Len(categories) + 1, Top.results[Top.i].text,
                           Val(extract_url_from_anchor(Top.results[Top.i].html)),
                           Top.parent_id)))]_vars

\* the root's page had an empty result list: the crawl is over after one
\* fetch, the counters created and still zero, no row stored
C14_Witness ==
    /\ cpc = "completed" /\ stack = <<>>
    /\ Len(fetched) = 1 /\ fetched[1].url = RootUrl
    /\ progress = Some(ZeroProgress)
    /\ categories = <<>>

\* the title-classified fragments the loop of process_products has read
TitlesRead == {j \in TitleIdx(results) : j < pos}

\* C15: until a title has been read no record is open and no row is stored,
\* an input without a title ends with no row, reading a title clears the rating
\* and the price, and the rating (price) of the open record is always the text
\* of a fragment read after its title.
C15_NoOrphanNoCarry ==
    /\ []((ipc = "parse" /\ TitlesRead = {})
             => (title = None /\ CatRows(products, category_id) = <<>>))
    /\ []((ipc = "done" /\ TitleIdx(results) = {})
             => CatRows(products, category_id) = <<>>)
    /\ []((ipc = "parse" /\ TitlesRead # {})
             => (/\ title = Some(strip(results[Max(TitlesRead)].text))
                 /\ rating # None =>
                       \E i \in (Max(TitlesRead) + 1)..(pos - 1) :
                           Val(rating) = strip(results[i].text)
                 /\ price # None =>
                       \E i \in (Max(TitlesRead) + 1)..(pos - 1) :
                           Val(price) = strip(results[i].text)))
    /\ [][(ipc = "parse" /\ pos <= Len(results) /\ is_title(strip(results[pos].text)))
            => (rating' = None /\ price' = None)]_vars

\* a rating and a price came before the only title: its row has neither
C15_Witness ==
    /\ ipc = "done" /\ Len(results) = 3
    /\ contains(results[1].text, "stars")
    /\ results[2].text = <<"$", "9.99">>
    /\ is_title(strip(results[3].text))
    /\ CatRows(products, category_id) =
          <<ProductRow(strip(results[3].text), None, None, category_id)>>

\* C16: while process_products reads its input, a record is open exactly when
\* a title has been read, the rows stored are one fewer than the titles read
\* (none before the first title), a step stores a row exactly when it reads a
\* title with a record open or ends the input with a record open, it stores
\* one row at most, and at the end there is one row per title.
C16_EmitAtBoundaries ==
    /\ [](ipc = "parse" =>
             /\ title # None <=> TitlesRead # {}
             /\ Len(CatRows(products, category_id)) =
                   IF TitlesRead = {} THEN 0 ELSE Cardinality(TitlesRead) - 1)
    /\ [](ipc = "done" =>
             Len(CatRows(products, category_id)) = Cardinality(TitleIdx(results)))
    /\ [][ipc = "parse" =>
            (/\ products' # products <=>
                   (/\ title # None
                    /\ (pos > Len(results) \/ is_title(strip(results[pos].text))))
             /\ products' # products =>
                   products' = Append(products, ProductRow(Val(title), rating, price,
                                                           category_id)))]_vars

\* the second title has been read: the first record is stored, the second is
\* open, and there is input left
C16_Witness ==
    /\ ipc = "parse" /\ pos <= Len(results)
    /\ Cardinality(TitlesRead) = 2
    /\ Len(CatRows(products, category_id)) = 1
    /\ title # None /\ Val(title) # CatRows(products, category_id)[1].title

\* C17: one fragment changes one thing at most: a text with `stars`, with or
\* without `$`, becomes the rating and leaves title, price and rows alone; a
\* text with `$` and no `stars` becomes the price and leaves title, rating and
\* rows alone; a text that is empty once trimmed changes nothing.
C17_ClassificationOrder ==
    [][(ipc = "parse" /\ pos <= Len(results))
         => (/\ contains(strip(results[pos].text), "stars")
                   => (/\ rating' = Some(strip(results[pos].text))
                       /\ price' = price /\ title' = title /\ products' = products)
             /\ (/\ contains(strip(results[pos].text), "$")
                 /\ ~contains(strip(results[pos].text), "stars"))
                   => (/\ price' = Some(strip(results[pos].text))
                       /\ rating' = rating /\ title' = title /\ products' = products)
             /\ strip(results[pos].text) = <<>>
                   => (/\ title' = title /\ rating' = rating /\ price' = price
                       /\ products' = products))]_vars

\* after a title and a price, a text with both `$` and `stars` was read: it is
\* the rating, and the price is still the earlier one
C17_Witness ==
    /\ ipc = "parse" /\ pos = 4 /\ Len(results) = 3
    /\ title # None
    /\ results[2].text = <<"$", "9.99">>
    /\ results[3].text = <<"$", "5", " ", "stars">>
    /\ rating = Some(<<"$", "5", " ", "stars">>)
    /\ price = Some(<<"$", "9.99">>)

\* some call at depth d is in its loop with fragments left to expand
Expanding(d) ==
    \E k \in 1..Len(stack) :
        stack[k].depth = d /\ stack[k].at = "loop" /\ stack[k].i <= Len(stack[k].results)

\* C18: a fragment without a URL changes neither counter of its depth, and
\* whenever no call at depth d is in the middle of its fragment list, `current`
\* and `total` of depth d are equal: every expansion so far added the same
\* amount to both.
C18_CurrentAndTotalTogether ==
    /\ []((cpc \in {"running", "completed"} /\ progress # None)
             => \A d \in 1..MaxDepth :
                   ~Expanding(d) => Val(progress)[d].current = Val(progress)[d].total)
    /\ [][(/\ cpc = "running" /\ stack # <<>> /\ Top.at = "loop"
           /\ Top.i <= Len(Top.results)
           /\ extract_url_from_anchor(Top.results[Top.i].html) = None)
            => progress' = progress]_vars

\* C20: the k-th category row has id k; a parent_id is the id of an earlier
\* row; no row has more than two rows above it; and a row stored by a call at
\* depth d has d - 1 rows above it, so its parent_id is null exactly when d = 1.
C20_ForestOfHeightThree ==
    /\ [](\A k \in 1..Len(categories) :
             /\ categories[k].id = k
             /\ categories[k].parent_id # None => Val(categories[k].parent_id) \in 1..(k - 1)
             /\ Cardinality(Ancestors(categories, k)) <= MaxDepth - 1)
    /\ [][Len(categories') > Len(categories)
            => (/\ Last(categories').parent_id = None <=> Top.depth = 1
                /\ Cardinality(Ancestors(categories', Len(categories'))) = Top.depth - 1)]_vars

\* a row found at depth 1, its child found at depth 2 and its grandchild found
\* at depth 3 are stored
C20_Witness ==
    /\ Len(categories) = 3
    /\ categories[1].parent_id = None
    /\ Ancestors(categories, 2) = {1}
    /\ Ancestors(categories, 3) = {1, 2}

\* the rows stored by a call at depth 1 or 2: those with at most one row above
ExpandableRows ==
    {k \in 1..Len(categories) : Cardinality(Ancestors(categories, k)) <= 1}

\* C21: the first fetch of a crawl is the root's and every later one is made
\* by a call below depth 1 for the url of a stored row, the row that was the
\* newest when the fetch was made and that was found one level higher; no two
\* such fetches are for the same url; and the fetches number at most one plus
\* the rows stored at depths 1 and 2.
C21_ExpandOnlyNewRows ==
    /\ \A f \in 1..Len(fetched) : fetched[f].depth = 1 <=> f = 1
    /\ \A f \in 2..Len(fetched) :
          /\ fetched[f].rows \in ExpandableRows
          /\ categories[fetched[f].rows].url = fetched[f].url
          /\ Cardinality(Ancestors(categories, fetched[f].rows)) = fetched[f].depth - 2
    /\ \A f, g \in 2..Len(fetched) : f # g => fetched[f].url # fetched[g].url
    /\ Len(fetched) <= 1 + Cardinality(ExpandableRows)

\* a crawl is over in which a stored url was met again and in which every row
\* found at depth 1 or 2 was fetched
C21_Witness ==
    /\ cpc = "completed"
    /\ Len(fetched) >= 3
    /\ Len(fetched) = 1 + Cardinality(ExpandableRows)
    /\ Val(progress)[1].current + Val(progress)[2].current + Val(progress)[3].current
          > Len(categories)

\* C22: from the lookup on, and so in every run that ends as not-found,
\* without data or with an error, no product row of the category is left; a
\* confirmed prompt deletes the category's rows, and only those, before any
\* lookup or fetch; a declined prompt ends the run with the rows as they were
\* and no fetch made.
C22_DeleteBeforeLookup ==
    /\ [](ipc \in {"lookup", "fetching", "fetched", "not_found", "no_data", "raised"}
             => CatRows(products, category_id) = <<>>)
    /\ [](ipc = "aborted"
             => (/\ request = None /\ response = None /\ removed = 0
                 /\ CatRows(products, category_id) # <<>>))
    /\ [][ipc = "confirm"
            => (/\ request' = None /\ response' = None
                /\ ipc' = "aborted" => products' = products
                /\ ipc' # "aborted" =>
                      (/\ ipc' = "lookup"
                       /\ removed' = Len(CatRows(products, category_id))
                       /\ CatRows(products', category_id) = <<>>
                       /\ \A c \in 1..3 : c # category_id =>
                             CatRows(products', c) = CatRows(products, c)))]_vars

\* the products of category 3 were deleted on confirmation, and then no
\* category 3 was found
C22_Witness ==
    /\ ipc = "not_found" /\ category_id = 3
    /\ removed > 0
    /\ CatRows(products, 3) = <<>>

Init ==
    /\ fstate = "idle" /\ request = None /\ attempt = 0
    /\ posts = 0 /\ response = None
    /\ cpc = "idle" /\ stack = <<>> /\ categories = <<>>
    /\ progress = None /\ fetched = <<>>
    /\ ipc = "idle" /\ category_id = 0 /\ products = <<>> /\ removed = 0
    /\ results = <<>> /\ pos = 0
    /\ title = None /\ rating = None /\ price = None
    /\ rpc = "idle" /\ html_string = <<>> /\ resolved = None

\* the stores an ingestion starts from: two crawled categories, the products
\* an earlier ingestion of category 2 left, and in products.db a product of a
\* category 3 that categories.db, a separate file, does not have
InitIngest ==
    /\ fstate = "idle" /\ request = None /\ attempt = 0
    /\ posts = 0 /\ response = None
    /\ cpc = "completed" /\ stack = <<>>
    /\ categories = <<Row(1, <<"Books">>, BASE_URL \o <<"books/">>, None),
                      Row(2, <<"Toys">>, BASE_URL \o <<"toys/">>, Some(1))>>
    /\ progress = Some([ZeroProgress EXCEPT ![1] = [current |-> 1, total |-> 1],
                                            ![2] = [current |-> 1, total |-> 1]])
    /\ fetched = <<[url |-> RootUrl, depth |-> 1, rows |-> 0],
                   [url |-> BASE_URL \o <<"books/">>, depth |-> 2, rows |-> 1],
                   [url |-> BASE_URL \o <<"toys/">>, depth |-> 3, rows |-> 2]>>
    /\ ipc = "idle" /\ category_id = 0 /\ removed = 0
    /\ products = <<ProductRow(<<"Gadget">>, None, Some(<<"$", "9.99">>), 2),
                    ProductRow(<<"Widget">>, Some(<<"4.5", " ", "stars">>), None, 3)>>
    /\ results = <<>> /\ pos = 0
    /\ title = None /\ rating = None /\ price = None
    /\ rpc = "idle" /\ html_string = <<>> /\ resolved = None

\* extract_url_from_anchor is called with any fragment
InitResolve ==
    /\ fstate = "idle" /\ request = None /\ attempt = 0
    /\ posts = 0 /\ response = None
    /\ cpc = "idle" /\ stack = <<>> /\ categories = <<>>
    /\ progress = None /\ fetched = <<>>
    /\ ipc = "idle" /\ category_id = 0 /\ products = <<>> /\ removed = 0
    /\ results = <<>> /\ pos = 0
    /\ title = None /\ rating = None /\ price = None
    /\ rpc = "called" /\ html_string \in HtmlInputs /\ resolved = None

NextResolve == Resolve

SpecResolve == InitResolve /\ [][NextResolve]_vars

NextIngest ==
    \/ IngestCall
    \/ IngestConfirm
    \/ IngestLookup
    \/ IngestAfterFetch
    \/ ProcessResult
    \/ ProcessFlush

SpecIngest == InitIngest /\ [][NextIngest]_vars

NextFetch ==
    \/ FetchCall
    \/ FetchAttempt

SpecFetch == Init /\ [][NextFetch]_vars

NextCrawl ==
    \/ CrawlStart
    \/ ScrapeEntry
    \/ ScrapeAfterFetch
    \/ ScrapeLoopStep
    \/ ScrapeReturn
    \/ Unwind
    \/ CrawlFailed
    \/ CrawlReturn

SpecCrawl == Init /\ [][NextCrawl]_vars

\* the crawl is one sequential program: while a step is possible it takes one
SpecCrawlFair == SpecCrawl /\ WF_vars(NextCrawl)

\* a bound on the steps a call at depth d takes, its subtree included: the
\* entry, the step after the fetch, the return, and for each of at most
\* MaxLinks fragments one loop step and one call a level deeper
RECURSIVE CallCost(_)
CallCost(d) ==
    IF d > MaxDepth THEN 1 ELSE 3 + MaxLinks * (1 + CallCost(d + 1))

\* a bound on the steps an active call still has to take
FrameCost(f) ==
    CASE f.at = "entry" -> CallCost(f.depth)
      [] f.at = "fetched" -> CallCost(f.depth) - 1
      [] f.at = "fetching" -> 1
      [] OTHER -> 1 + (Len(f.results) + 1 - f.i) * (1 + CallCost(f.depth + 1))

RECURSIVE StackCost(_)
StackCost(stk) ==
    IF stk = <<>> THEN 0 ELSE FrameCost(stk[1]) + StackCost(Tail(stk))

\* a bound on the steps the crawl still has to take
Rank ==
    CASE cpc = "idle" -> 3 + CallCost(1)
      [] cpc = "running" -> 2 + StackCost(stack)
      [] cpc = "raising" -> 1 + Len(stack)
      [] OTHER -> 0

\* the crawl is over, with or without an error
CrawlOver == cpc \in {"completed", "error"}

\* a fetch_page call of the crawl never comes back
FetchHangs == cpc = "running" /\ stack # <<>> /\ Top.at = "fetching"

\* C19: at most MaxDepth + 1 scrape_category calls are ever active, the k-th
\* of them at depth k; every step of a crawl lowers a natural-number bound on
\* the steps still to come, so no crawl runs for ever; and the crawl can only
\* come to rest when it is over or inside a fetch that never ends.  A program
\* that takes a step while one is possible (SpecCrawlFair) therefore ends every
\* crawl whose fetches end, whatever the pages link to.
C19_CrawlTerminates ==
    /\ [](/\ Len(stack) <= MaxDepth + 1
          /\ \A k \in 1..Len(stack) : stack[k].depth = k
          /\ Rank >= 0)
    /\ [][Rank' < Rank]_vars
    /\ []((~ENABLED NextCrawl) => (CrawlOver \/ FetchHangs))

\* a crawl is over in which a page linked back to the root, the root was
\* stored as a category and fetched a second time
C19_Witness ==
    /\ cpc = "completed"
    /\ \E f, g \in 1..Len(fetched) :
          f # g /\ fetched[f].url = RootUrl /\ fetched[g].url = RootUrl
    /\ \E f \in 1..Len(fetched) : fetched[f].depth = 3

====
